---- MODULE Spec2Model ----
(***************************************************************************)
(* Host side of the Live Share notebook layer: HostJupyterExecution with   *)
(* its forwarded-port list, shared-server list and ServerCache, driven by  *)
(* connectToNotebookServer calls, onAttach / onDetach / dispose and        *)
(* disposal of server handles.  Every `await` of the TypeScript source is  *)
(* a point where another continuation may run, so each async function is   *)
(* split into one action per continuation.  A prefix that only waits       *)
(* (onAttach before waitForService resolves, onDetach before               *)
(* super.onDetach resolves, dispose before it reaches the body of          *)
(* onDetach) reads and writes nothing, so such a call is one action, taken *)
(* when its body runs.  `this.api` is the collaboration API of the moment: *)
(* every read of it draws the value from Roles.                            *)
(***************************************************************************)
EXTENDS Integers, Sequences, FiniteSets, TLC

(* ------------------------------ bounds -------------------------------- *)
\* concurrent connectToNotebookServer calls
MaxCalls == 2
\* servers the backend launches in one run
MaxServers == 2
\* shareServer calls in one run
MaxShares == 1
\* distinct local port numbers
MaxPort == 1
\* portForwardServer tasks of onAttach pending per port
MaxPending == 1
\* dispose() calls counted per port-forward disposable
MaxCount == 2
\* consecutive onDetach runs counted
MaxStreak == 2
\* MockLiveService channels created in one run
MaxChannels == 2
\* distinct handler functions registered on channels
MaxHandlers == 2
\* share / get calls counted per service name between two unshareService calls
MaxEpochCalls == 2
\* session-change events waiting for the role-based factory
MaxEvents == 2
\* MockLiveShare instances constructed in one run
MaxInstances == 3
\* lines of linter output in one parseLines call
MaxLines == 3
\* largest configured linting.maxNumberOfProblems
MaxProblems == 3

(* ------------------------- program constants -------------------------- *)
\* let port = -1
NoPort == -1

Calls == 1..MaxCalls
Ports == 1..MaxPort
\* "Null": no API; "NoSession": an API without a session; "None": an API whose
\* session has no role yet (a Guest session takes the same branches as "None"
\* in this class)
Roles == {"Null", "NoSession", "None", "Host"}
Options == {"undef", "dflt", "other"}
Keys == {"k0", "k1"}
Commands == {"isNotebookSupported", "isImportSupported", "isKernelCreateSupported",
             "isKernelSpecSupported", "connectToNotebookServer", "getUsableJupyterPython"}
\* connection info of a launched server: port 0 stands for a base URL
\* in which ExtractPortRegex finds no port
ServerInfos == {[local |-> FALSE, port |-> 0]} \cup {[local |-> TRUE, port |-> p] : p \in 0..MaxPort}

VARIABLES
    sharedServers,  \* this.sharedServers: sequence of share ids
    fowardedPorts,  \* this.fowardedPorts: sequence of ports
    cache,          \* ServerCache: key -> server id, 0 for no entry
    servers,        \* launched server handles, id = index
    shares,         \* disposables returned by shareServer, id = index
    calls,          \* connectToNotebookServer calls in flight
    overlaps,       \* pairs of calls with equivalent options that both missed the cache while in flight
    pfPending,      \* portForwardServer tasks of onAttach waiting for `await this.api`
    pfSharing,      \* portForwardServer tasks of onAttach waiting for shareServer
    lastOp,         \* the lifecycle operation that has just completed, "other" after any other step
    detachStreak,   \* consecutive completed onDetach bodies
    attachSpawned,  \* ports the last onAttach started portForwardServer for ({} once lastOp is "other")
    attachApi,      \* the api argument of the last onAttach
    attachService,  \* whether the last onAttach got the shared service from waitForService
    attachHandlers, \* request names the last onAttach registered a handler for
    detachedEntries,\* handles that were cache entries when the last onDetach body ran
    detachedPorts,  \* ports of the forwarded-port list when the last onDetach body ran,
                    \* {} once a step other than a following onAttach was taken
    reply,          \* the connection info onRemoteConnectToNotebookServer has just returned to
                    \* a guest, NoReply once the host has taken another step
    services,       \* MockLiveShare.services (static): service name -> channel id, 0 for no entry
    channels,       \* every MockLiveService created, id = index: its two handler maps
    latestReq,      \* per channel and name, the handler of the latest onRequest call (0: none)
    latestNtf,      \* per channel and name, the handler of the latest onNotify call (0: none)
    epoch,          \* per service name, the channel returned by the first shareService since the
                    \* last unshareService (0: none yet) and the share / get calls made since
    mcall,          \* the latest call on the mock and its outcome
    frole,          \* RoleBasedFactory: the role it resolved last
    fpc,            \* RoleBasedFactory: "idle", or "swapping" between the two calls of a swap
    active,         \* roles whose wrapper is attached
    fevents,        \* session-change events not yet handled: the new roles, oldest first
    others,         \* MockLiveShare.others (static): every instance constructed, id = index
    apis,           \* per test container, its MockLiveShareApi: currentRole, currentApi
    acall,          \* the latest call on a MockLiveShareApi or MockLiveShare and its outcome
    lint            \* the latest call on a BaseLinter, its inputs and its outcome

vars == <<sharedServers, fowardedPorts, cache, servers, shares, calls, overlaps,
          pfPending, pfSharing, lastOp, detachStreak, attachSpawned,
          attachApi, attachService, attachHandlers, detachedEntries, detachedPorts,
          reply, services, channels, latestReq, latestNtf, epoch, mcall,
          frole, fpc, active, fevents, others, apis, acall, lint>>

factoryVars == <<frole, fpc, active, fevents>>

mockVars == <<services, channels, latestReq, latestNtf, epoch, mcall>>

apiVars == <<others, apis, acall>>

lintVars == <<lint>>

Range(s) == {s[i] : i \in 1..Len(s)}
Min(a, b) == IF a < b THEN a ELSE b

(* ----------------------------- ServerCache ---------------------------- *)
\* generateDefaultOptions: absent options become the generated default configuration
GenerateDefaultOptions(o) == IF o = "undef" THEN "dflt" ELSE o

\* canonical key of an option set
GenerateKey(o) == IF GenerateDefaultOptions(o) = "dflt" THEN "k0" ELSE "k1"

\* ServerCache.get: the cached handle, 0 (undefined) if none
ServerCacheGet(c, o) == c[GenerateKey(o)]

\* dispose() of a port-forward disposable returned by shareServer
DisposeShare(sh, d) == [sh EXCEPT ![d].count = Min(@ + 1, MaxCount)]

(* -------- disposal callback handed to serverCache.set (host) ---------- *)
\* this.fowardedPorts = this.fowardedPorts.filter(p => p != port)
CallbackPorts(fp, port) == SelectSeq(fp, LAMBDA p : p # port)

\* if (sharedServerDisposable) { sharedServerDisposable.dispose(); }
CallbackShares(sh, d) == IF d # 0 THEN DisposeShare(sh, d) ELSE sh

(* ----------------------- ServerCache, continued ----------------------- *)
\* a handle the cache has not seen; once its callback has run the handle keeps
\* no reference to the port or the disposable (the closure is never called again)
NewServer == [wrapped |-> "none", cbPort |-> NoPort, cbDisp |-> 0, cbCount |-> 0,
              setOpts |-> "undef"]

\* a wrapper that runs the callback on every dispose call
WrappedDisposeAlways(h, st) ==
    IF st.sv[h].wrapped = "none" THEN st
    ELSE [fp |-> CallbackPorts(st.fp, st.sv[h].cbPort),
          sh |-> CallbackShares(st.sh, st.sv[h].cbDisp),
          sv |-> [st.sv EXCEPT ![h].wrapped = "fired",
                               ![h].cbCount = Min(@ + 1, MaxCount)],
          ca |-> [k \in Keys |-> IF st.ca[k] = h THEN 0 ELSE st.ca[k]]]

\* The cache replaces the handle's dispose by a wrapper: the wrapper removes
\* the entry, runs the disposal callback once and disposes the server; a
\* handle whose callback has run is not disposed through the cache again.
\* st = [fp, sh, sv, ca]: forwarded ports, shares, servers, cache.
WrappedDispose(h, st) ==
    IF st.sv[h].wrapped = "armed"
    THEN [fp |-> CallbackPorts(st.fp, st.sv[h].cbPort),
          sh |-> CallbackShares(st.sh, st.sv[h].cbDisp),
          sv |-> [st.sv EXCEPT ![h] = [NewServer EXCEPT !.wrapped = "fired",
                                                        !.cbCount = Min(st.sv[h].cbCount + 1, MaxCount)]],
          ca |-> [k \in Keys |-> IF st.ca[k] = h THEN 0 ELSE st.ca[k]]]
    ELSE st

\* a dispose that stops after the first entry
CacheEntriesFirst(c) == IF c["k0"] # 0 THEN {c["k0"]} ELSE {c[k] : k \in Keys} \ {0}

\* the handles ServerCache.dispose disposes: every entry
CacheEntries(c) == {c[k] : k \in Keys} \ {0}

RECURSIVE DisposeAll(_, _)
DisposeAll(H, st) ==
    IF H = {} THEN st
    ELSE LET h == CHOOSE x \in H : TRUE
         IN DisposeAll(H \ {h}, WrappedDispose(h, st))

\* ServerCache.dispose: dispose every live entry, then be empty
ServerCacheDispose(st) ==
    [DisposeAll(CacheEntries(st.ca), st) EXCEPT !.ca = [k \in Keys |-> 0]]

\* ServerCache.set: one entry per canonical key; an entry already under the
\* key is disposed first, then the handle is stored with its callback
ServerCacheSet(h, port, d, o, st) ==
    LET k == GenerateKey(o)
        s1 == IF st.ca[k] # 0 THEN WrappedDispose(st.ca[k], st) ELSE st
    IN [s1 EXCEPT !.ca[k] = h,
                  !.sv[h].wrapped = "armed",
                  !.sv[h].cbPort = port,
                  !.sv[h].cbDisp = d,
                  !.sv[h].setOpts = o]

(* ------------------------ HostJupyterExecution ------------------------ *)
HostState == [fp |-> fowardedPorts, sh |-> shares, sv |-> servers, ca |-> cache]

\* getServer that drops its argument: this.serverCache.get()
GetServerNoOptions(o) == ServerCacheGet(cache, "undef")

\* getServer(options): return this.serverCache.get(options)
GetServer(o) == ServerCacheGet(cache, o)

\* portForwardServer that shares whenever there is an API
ShouldShareAnyApi(role) == role # "Null"

\* api && api.session && api.session.role === vsls.Role.Host
ShouldShare(role) == role = "Host"

\* a connect that never takes the cached handle
CacheHitNever(result) == FALSE

\* if (result) { return result; } of connectToNotebookServer
CacheHit(result) == result # 0

\* a portForwardServer that pushes without looking
PushPortAlways(fp, port) == Append(fp, port)

\* if (this.fowardedPorts.indexOf(port) === -1) { this.fowardedPorts.push(port); }
PushPort(fp, port) == IF port \in Range(fp) THEN fp ELSE Append(fp, port)

\* a connect that forwards for every local launch, whatever its base URL
NeedsForwardAnyLocal(info) == info.local

\* connectionInfo && connectionInfo.localLaunch && portMatch && portMatch.length > 1
NeedsForward(info) == info.local /\ info.port # 0

\* onAttach without the getUsableJupyterPython registration
RegisteredCommandsFive == Commands \ {"getUsableJupyterPython"}

\* an onAttach without the check of its argument
AttachRunsAlways(api) == TRUE

\* if (api) of onAttach
AttachRuns(api) == api # "Null"

\* the six service.onRequest registrations of onAttach
RegisteredCommands == Commands

\* this.fowardedPorts.forEach(p => this.portForwardServer(p)...)
PortsToForward(fp) == Range(fp)

\* onDetach that drops the shared servers without disposing them
DisposeSharedNone(ss, sh) == sh

\* this.sharedServers.forEach(s => s.dispose())
RECURSIVE DisposeShared(_, _)
DisposeShared(ss, sh) ==
    IF ss = <<>> THEN sh ELSE DisposeShared(Tail(ss), DisposeShare(sh, Head(ss)))

\* onDetach that keeps the forwarded-port list
DetachPortsKeep(fp) == fp

\* this.fowardedPorts = [] of onDetach
DetachPorts(fp) == <<>>

\* onDetach that keeps the shared-server list
DetachSharedKeep(ss) == ss

\* this.sharedServers = [] of onDetach
DetachShared(ss) == <<>>

\* no connection info has been returned to a guest yet
NoReply == [kind |-> "none", baseUrl |-> 0, token |-> 0, localLaunch |-> FALSE,
            dispose |-> "noop", called |-> FALSE]

\* what localServer.getConnectionInfo() can return for server h: undefined
\* (kind "none") or its connection info; base URL and token are those of
\* server h, a server whose port was forwarded is a local launch, and dispose
\* is the connection's own dispose
ConnectionInfos(h) ==
    {NoReply} \cup
    {[kind |-> "info", baseUrl |-> h, token |-> h, localLaunch |-> l,
      dispose |-> "connection", called |-> FALSE] :
        l \in IF servers[h].cbPort # NoPort THEN {TRUE} ELSE BOOLEAN}

\* a handler that hands the connection info to the guest as it is
RemoteConnectionAsIs(info) == info

\* { baseUrl: connectionInfo.baseUrl, token: connectionInfo.token,
\*   localLaunch: false, dispose: noop }
RemoteConnection(info) ==
    [kind |-> "info", baseUrl |-> info.baseUrl, token |-> info.token,
     localLaunch |-> FALSE, dispose |-> "noop", called |-> FALSE]

(* ------------------- MockLiveService / MockLiveShare ------------------ *)
SvcNames == {"X", "Y"}
MsgNames == {"m", "n"}
Insts == {"host", "guest"}
Args == {"a1", "a2"}
\* the optional cancellation token of request: "none" when left out
Tokens == {"t1", "none"}
Handlers == 1..MaxHandlers

\* what a handler returns when called: each handler is a function of what it is passed
HandlerResult(h, args, token) == [by |-> h, args |-> args, token |-> token]
\* undefined
NoResult == [by |-> 0, args |-> "none", token |-> "none"]

NoCall == [op |-> "none", inst |-> "none", svc |-> "none", ref |-> 0, name |-> "none",
           args |-> "none", token |-> "none", ran |-> <<>>, retCh |-> 0,
           result |-> NoResult, threw |-> FALSE]

\* new MockLiveService(name): two empty handler maps
NewMockLiveService == [req |-> [n \in MsgNames |-> 0], ntf |-> [n \in MsgNames |-> 0]]

\* a shareService that never finds the name in the map
ServicesHasNever(sv, name) == FALSE

\* MockLiveShare.services.has(name)
ServicesHas(sv, name) == sv[name] # 0

\* MockLiveShare.services.get(name)
ServicesGet(sv, name) == sv[name]

\* an unshareService that leaves the entry in the map
ServicesDeleteNone(sv, name) == sv

\* MockLiveShare.services.delete(name)
ServicesDelete(sv, name) == [sv EXCEPT ![name] = 0]

\* a lookup that falls back to the notify handler of the name
RequestHandlerFallback(ch, name) == IF ch.req[name] # 0 THEN ch.req[name] ELSE ch.ntf[name]

\* this.requestHandlers.get(name)
RequestHandler(ch, name) == ch.req[name]

\* a notify that looks the name up among the request handlers
NotifyHandlerFromRequests(ch, name) == ch.req[name]

\* this.notifyHandlers.get(name)
NotifyHandler(ch, name) == ch.ntf[name]

\* a registration that keeps the handler already registered under the name
SetRequestHandlerFirst(ch, name, h) == IF ch.req[name] # 0 THEN ch ELSE [ch EXCEPT !.req[name] = h]

\* this.requestHandlers.set(name, handler)
SetRequestHandler(ch, name, h) == [ch EXCEPT !.req[name] = h]

\* this.notifyHandlers.set(name, handler)
SetNotifyHandler(ch, name, h) == [ch EXCEPT !.ntf[name] = h]

\* handler(args, cancellation): what the handler is passed
RequestPassed(args, token) == [args |-> args, token |-> token]

\* handler(args)
NotifyPassed(args) == [args |-> args, token |-> "none"]

(* ----------------- MockLiveShare / MockLiveShareApi -------------------- *)
ApiRoles == {"None", "Host", "Guest"}
Containers == {"hostContainer", "guestContainer"}
UriSchemes == {"file", "vsls", "http"}
BaseNames == {"a.py", "b.py"}
Fragments == {"", "a.py"}

\* instances of vscode.Uri: dir and base are the two parts of fsPath
Uris == {[kind |-> "uri", scheme |-> sc, dir |-> "/w", base |-> b, fragment |-> f] :
            sc \in UriSchemes, b \in BaseNames, f \in Fragments}

\* JavaScript values that are not Uri instances
NonUriKinds == {"undefined", "null", "false", "zero", "emptyString", "true", "number",
                "string", "array", "object", "function"}
NonUris == {[kind |-> k, scheme |-> "", dir |-> "", base |-> "", fragment |-> ""] :
               k \in NonUriKinds}
Values == Uris \cup NonUris

\* !value is false
Truthy(v) == v.kind \notin {"undefined", "null", "false", "zero", "emptyString"}

\* typeof value
TypeOf(v) ==
    CASE v.kind = "undefined" -> "undefined"
      [] v.kind \in {"false", "true"} -> "boolean"
      [] v.kind \in {"zero", "number"} -> "number"
      [] v.kind \in {"emptyString", "string"} -> "string"
      [] v.kind = "function" -> "function"
      [] OTHER -> "object"

NoError == [error |-> "none", param |-> "none"]

\* checkArg(value, name, type): the error it throws, NoError if it returns
CheckArg(v, name, type) ==
    IF ~Truthy(v) THEN [error |-> "is required", param |-> name]
    ELSE IF type = "none" THEN NoError
    ELSE IF type = "array"
         THEN IF v.kind # "array" THEN [error |-> "must be an array", param |-> name]
              ELSE NoError
    ELSE IF type = "uri"
         THEN IF v.kind # "uri" THEN [error |-> "must be a Uri object", param |-> name]
              ELSE NoError
    ELSE IF type = "object" /\ v.kind = "array"
         THEN [error |-> "must be a a non-array object", param |-> name]
    ELSE IF TypeOf(v) # type THEN [error |-> "must be type", param |-> name]
    ELSE NoError

\* a conversion without the role check
RoleErrorNever(role) == NoError

\* if (this.session.role !== vsls.Role.Host) { throw ... }
RoleError(role) ==
    IF role # "Host" THEN [error |-> "Only the host role can convert shared URIs.",
                           param |-> "none"]
    ELSE NoError

NoUri == [kind |-> "undefined", scheme |-> "", dir |-> "", base |-> "", fragment |-> ""]
Threw(e) == [err |-> e, uri |-> NoUri]
Returned(u) == [err |-> NoError, uri |-> u]

\* convertLocalUriToShared(localUri) on an instance whose session role is role
ConvertLocalUriToShared(role, v) ==
    IF CheckArg(v, "localUri", "uri") # NoError THEN Threw(CheckArg(v, "localUri", "uri"))
    ELSE IF RoleError(role) # NoError THEN Threw(RoleError(role))
    ELSE IF v.scheme = "vsls" THEN Threw([error |-> "URI is already a vsls URI", param |-> "none"])
    ELSE IF v.scheme # "file" THEN Threw([error |-> "Not a workspace file URI", param |-> "none"])
    ELSE Returned([kind |-> "uri", scheme |-> "vsls", dir |-> "", base |-> v.base,
                   fragment |-> ""])

\* convertSharedUriToLocal(sharedUri) on an instance whose session role is role
ConvertSharedUriToLocal(role, v) ==
    IF CheckArg(v, "sharedUri", "uri") # NoError THEN Threw(CheckArg(v, "sharedUri", "uri"))
    ELSE IF RoleError(role) # NoError THEN Threw(RoleError(role))
    ELSE IF v.scheme # "vsls" THEN Threw([error |-> "Not a shared URI", param |-> "none"])
    ELSE Returned([kind |-> "uri", scheme |-> "file", dir |-> "EXTENSION_ROOT_DIR",
                   base |-> v.fragment, fragment |-> ""])

\* every existing instance treats the new one as a peer
PeerDiffersAlways(peerRole, thisRole) == TRUE

\* if (peer.role != this.role) of onPeerConnected
PeerDiffers(peerRole, thisRole) == peerRole # thisRole

\* this._peerNumber = _role === vsls.Role.Host ? 0 : 1
PeerNumber(role) == IF role = "Host" THEN 0 ELSE 1

\* f.onPeerConnected(peer) for instance f: its state afterwards
OnPeerConnected(f, peer, peerRole) ==
    IF PeerDiffers(peerRole, f.role) THEN [f EXCEPT !.peers = Append(@, peer)] ELSE f

\* the peers-changed events f.onPeerConnected(peer) fires
PeerEventsFired(f, peer, peerRole) ==
    IF PeerDiffers(peerRole, f.role) THEN <<[added |-> <<peer>>, removed |-> <<>>]>> ELSE <<>>

\* new MockLiveShare(role): push to others, then others.forEach(f => f.onPeerConnected(this))
NewMockLiveShare(oth, role) ==
    LET id == Len(oth) + 1
        oth1 == Append(oth, [role |-> role, peerNumber |-> PeerNumber(role), peers |-> <<>>])
    IN [others |-> [i \in 1..id |-> OnPeerConnected(oth1[i], id, role)],
        events |-> [i \in 1..id |-> PeerEventsFired(oth1[i], id, role)]]

\* a startSession that only needs an API
StartAllowedAnyRole(role, api) == api # 0

\* this.currentRole === vsls.Role.Host && this.currentApi
StartAllowed(role, api) == role = "Host" /\ api # 0

(* ------------------------------ BaseLinter ----------------------------- *)
\* one line of linter output: what matchNamedRegEx makes of it ("throws": the
\* regular expression cannot be applied) and, for a match, the line and column
\* groups as numbers
OutputLines ==
    {[kind |-> "nomatch", line |-> 0, column |-> 0],
     [kind |-> "throws", line |-> 0, column |-> 0],
     [kind |-> "match", line |-> 1, column |-> -1],
     [kind |-> "match", line |-> 2, column |-> 3]}

ColumnOffsets == {0, 1}

RECURSIVE SeqsUpTo(_, _)
SeqsUpTo(S, n) ==
    IF n = 0 THEN {<<>>}
    ELSE SeqsUpTo(S, n - 1) \cup {Append(q, x) : q \in SeqsUpTo(S, n - 1), x \in S}

\* parseLine: no message without a match; column <= 0 becomes 0, any other
\* column is reduced by the column offset
ParseLine(l, colOffset) ==
    IF l.kind # "match" THEN [found |-> FALSE, line |-> 0, column |-> 0]
    ELSE [found |-> TRUE, line |-> l.line,
          column |-> IF l.column <= 0 THEN 0 ELSE l.column - colOffset]

\* if (messages.length >= this.pythonSettings.linting.maxNumberOfProblems) break,
\* tested after the push
LimitReached(n, max) == n >= max

\* the for loop of parseLines from line i on: messages pushed, lines read,
\* parse failures logged
RECURSIVE ParseLoop(_, _, _, _, _, _)
ParseLoop(lines, i, colOffset, max, messages, logged) ==
    IF i > Len(lines) THEN [messages |-> messages, read |-> Len(lines), logged |-> logged]
    ELSE IF lines[i].kind = "throws"
         THEN ParseLoop(lines, i + 1, colOffset, max, messages, logged + 1)
    ELSE LET msg == ParseLine(lines[i], colOffset)
         IN IF msg.found
            THEN IF LimitReached(Len(messages) + 1, max)
                 THEN [messages |-> Append(messages, msg), read |-> i, logged |-> logged]
                 ELSE ParseLoop(lines, i + 1, colOffset, max, Append(messages, msg), logged)
            ELSE ParseLoop(lines, i + 1, colOffset, max, messages, logged)

\* parseLines(outputLines, regEx)
ParseLines(lines, colOffset, max) == ParseLoop(lines, 1, colOffset, max, <<>>, 0)

\* what a run meets: whether the linter is enabled for the document; what
\* getActiveInterpreter resolves to (an interpreter of type Unknown or of another
\* type, undefined, or a rejection); what exec resolves to (a result with the
\* output lines, a result without stdout, or a rejection); isTestExecution();
\* what the promise of errorHandler.handleError does
RunInputs ==
    [enabled : BOOLEAN,
     interp : {"Unknown", "VirtualEnv", "undefined", "rejects"},
     exec : {"ok", "stdoutUndefined", "rejects"},
     lines : SeqsUpTo(OutputLines, 1),
     test : BOOLEAN,
     handler : {"handled", "unhandled", "rejects"}]

\* a handleError that awaits the promise of the error handler
HandleErrorAwaited(test, handler) ==
    [calls |-> 1, threw |-> handler = "rejects", logged |-> 0]

\* handleError: errorHandler.handleError is called once and its promise is left
\* to ignoreErrors, its rejection being logged first outside a test execution
HandleError(test, handler) ==
    [calls |-> 1, threw |-> FALSE,
     logged |-> IF ~test /\ handler = "rejects" THEN 1 ELSE 0]

\* the catch block of run: await this.handleError(...); return []
RunCatch(i, executed, env, header) ==
    LET h == HandleError(i.test, i.handler)
    IN [ret |-> <<>>, threw |-> h.threw, executed |-> executed, env |-> env,
        header |-> header, handlerCalls |-> h.calls, logged |-> h.logged]

\* run(args, document, cancellation, regEx)
Run(i, colOffset, max) ==
    IF ~i.enabled
    THEN [ret |-> <<>>, threw |-> FALSE, executed |-> FALSE, env |-> "none",
          header |-> FALSE, handlerCalls |-> 0, logged |-> 0]
    ELSE IF i.interp \in {"undefined", "rejects"} THEN RunCatch(i, FALSE, "none", FALSE)
    ELSE LET env == IF i.interp # "Unknown" THEN "VIRTUAL_ENV" ELSE "empty"
         IN IF i.exec = "rejects" THEN RunCatch(i, TRUE, env, FALSE)
            ELSE IF i.exec = "stdoutUndefined" THEN RunCatch(i, TRUE, env, TRUE)
            ELSE [ret |-> ParseLines(i.lines, colOffset, max).messages, threw |-> FALSE,
                  executed |-> TRUE, env |-> env, header |-> TRUE, handlerCalls |-> 0,
                  logged |-> 0]

\* no call has been made on the linter yet
NoLint == [op |-> "none"]

LintInit == lint = NoLint

\* no call has been made on the API of a container or on an instance yet
NoApiCall == [op |-> "none", container |-> "none", inst |-> 0, role |-> "none",
              arg |-> NoUri, out |-> Threw(NoError), created |-> 0, peerEvents |-> <<>>,
              sessionEvents |-> <<>>, after |-> "none"]

\* new MockLiveShareApi(): currentRole = vsls.Role.None, currentApi = null;
\* forced is the role of the latest forceRole call, "never" before the first
NewMockLiveShareApi == [currentRole |-> "None", currentApi |-> 0, forced |-> "never"]

ApiInit ==
    /\ others = <<>>
    /\ apis = [c \in Containers |-> NewMockLiveShareApi]
    /\ acall = NoApiCall

\* detached: the body of onDetach ran while the call was suspended (recorded
\* under InflightSpec only)
IdleCall == [pc |-> "idle", opts |-> "undef", result |-> 0, port |-> NoPort, disp |-> 0,
             launched |-> FALSE, detached |-> FALSE]
\* a call that has returned `result` (0 for undefined) to its caller
Done(result) == [IdleCall EXCEPT !.pc = "done", !.result = result]
\* the same for a call that was suspended on the way
DoneAfter(call, result) == [Done(result) EXCEPT !.detached = call.detached]
InFlight == {"launch", "pf_api", "pf_share", "pf_ret"}

HostInit ==
    /\ sharedServers = <<>>
    /\ fowardedPorts = <<>>
    /\ cache = [k \in Keys |-> 0]
    /\ servers = <<>>
    /\ shares = <<>>
    /\ calls = [c \in Calls |-> IdleCall]
    /\ overlaps = {}
    /\ pfPending = [p \in Ports |-> 0]
    /\ pfSharing = {}
    /\ lastOp = "other"
    /\ detachStreak = 0
    /\ attachSpawned = {}
    /\ attachApi = "Null"
    /\ attachService = FALSE
    /\ attachHandlers = {}
    /\ detachedEntries = {}
    /\ detachedPorts = {}
    /\ reply = NoReply
    /\ frole = "None"
    /\ fpc = "idle"
    /\ active = {"None"}
    /\ fevents = <<>>

\* no MockLiveShare has shared a service yet
MockInit ==
    /\ services = [n \in SvcNames |-> 0]
    /\ channels = <<>>
    /\ latestReq = <<>>
    /\ latestNtf = <<>>
    /\ epoch = [n \in SvcNames |-> [first |-> 0, calls |-> 0]]
    /\ mcall = NoCall

Init == HostInit /\ MockInit /\ ApiInit /\ LintInit

hostVars == <<sharedServers, fowardedPorts, cache, servers, shares>>
\* a step that is not a lifecycle operation; op names what portForwardServer
\* read from this.api when the step is its continuation, what the backend
\* connect yielded when the step is the continuation of that connect, "other"
\* otherwise
GhostReset(op) ==
    /\ UNCHANGED <<mockVars, factoryVars, apiVars, lintVars>>
    /\ lastOp' = op
    /\ detachStreak' = 0
    /\ attachSpawned' = {}
    /\ attachApi' = "Null"
    /\ attachService' = FALSE
    /\ attachHandlers' = {}
    /\ detachedEntries' = {}
    /\ detachedPorts' = {}

TouchedAs(op) == GhostReset(op) /\ reply' = NoReply

Touched == TouchedAs("other")

\* what the backend connect yielded: a server that is not a local launch, a
\* local launch whose base URL has no port, or a local launch with a port
LaunchOp(info) ==
    IF ~info.local THEN "launchRemote"
    ELSE IF info.port = 0 THEN "launchNoPort" ELSE "launchLocal"

\* the value portForwardServer got from `await this.api`
PfOp(role) ==
    CASE role = "Host" -> "pfHost"
      [] role = "None" -> "pfNone"
      [] role = "NoSession" -> "pfNoSession"
      [] OTHER -> "pfNull"

\* connectToNotebookServer up to the resolution of serverCache.get
ConnectCall(c, o) ==
    /\ calls[c].pc = "idle"
    /\ \A c2 \in Calls : c2 < c => calls[c2].pc # "idle"
    /\ LET hit == ServerCacheGet(cache, o)
       IN IF CacheHit(hit)
          THEN /\ calls' = [calls EXCEPT ![c] = Done(hit)]
               /\ UNCHANGED overlaps
          ELSE /\ calls' = [calls EXCEPT ![c] = [IdleCall EXCEPT !.pc = "launch", !.opts = o]]
               /\ overlaps' = overlaps \cup
                     {{c, c2} : c2 \in {x \in Calls \ {c} :
                                           /\ calls[x].pc \in InFlight
                                           /\ GenerateKey(calls[x].opts) = GenerateKey(o)}}
    /\ UNCHANGED <<hostVars, pfPending, pfSharing>>
    /\ Touched

\* ports on which a locally launched server of this host is listening: the
\* backend starts no second server on such a port
LivePorts ==
    {calls[c].port : c \in {x \in Calls : calls[x].pc \in {"pf_api", "pf_share", "pf_ret"}}}
    \cup {servers[h].cbPort : h \in {x \in 1..Len(servers) : servers[x].wrapped = "armed"}}

\* super.connectToNotebookServer resolves; runs to `await this.api` of
\* portForwardServer, or to the return when no port is forwarded
ConnectLaunch(c) ==
    /\ calls[c].pc = "launch"
    /\ \/ /\ calls' = [calls EXCEPT ![c] = DoneAfter(calls[c], 0)]
          /\ UNCHANGED hostVars
          /\ TouchedAs("launchNone")
       \/ /\ Len(servers) < MaxServers
          /\ \E info \in ServerInfos :
               /\ NeedsForward(info) => info.port \notin LivePorts
               /\ TouchedAs(LaunchOp(info))
               /\ LET h == Len(servers) + 1
                      sv1 == Append(servers, NewServer)
                  IN IF NeedsForward(info)
                     THEN /\ calls' = [calls EXCEPT ![c].pc = "pf_api", ![c].result = h,
                                                    ![c].port = info.port,
                                                    ![c].launched = TRUE]
                          /\ servers' = sv1
                          /\ UNCHANGED <<sharedServers, fowardedPorts, cache, shares>>
                     ELSE LET st == ServerCacheSet(h, NoPort, 0, calls[c].opts,
                                                   [HostState EXCEPT !.sv = sv1])
                          IN /\ calls' = [calls EXCEPT ![c] = DoneAfter(calls[c], h)]
                             /\ servers' = st.sv
                             /\ cache' = st.ca
                             /\ shares' = st.sh
                             /\ fowardedPorts' = st.fp
                             /\ UNCHANGED sharedServers
    /\ UNCHANGED <<overlaps, pfPending, pfSharing>>

\* portForwardServer of a connect call after `await this.api`
ConnectPfApi(c, role) ==
    /\ calls[c].pc = "pf_api"
    /\ IF ShouldShare(role)
       THEN /\ Len(shares) < MaxShares
            /\ shares' = Append(shares, [port |-> calls[c].port, count |-> 0, pushed |-> FALSE])
            /\ calls' = [calls EXCEPT ![c].pc = "pf_share", ![c].disp = Len(shares) + 1]
            /\ UNCHANGED fowardedPorts
       ELSE /\ fowardedPorts' = PushPort(fowardedPorts, calls[c].port)
            /\ calls' = [calls EXCEPT ![c].pc = "pf_ret"]
            /\ UNCHANGED shares
    /\ UNCHANGED <<sharedServers, cache, servers, overlaps, pfPending, pfSharing>>
    /\ TouchedAs(PfOp(role))

\* portForwardServer of a connect call after `await api.shareServer(...)`
ConnectPfShare(c) ==
    /\ calls[c].pc = "pf_share"
    /\ sharedServers' = Append(sharedServers, calls[c].disp)
    /\ shares' = [shares EXCEPT ![calls[c].disp].pushed = TRUE]
    /\ fowardedPorts' = PushPort(fowardedPorts, calls[c].port)
    /\ calls' = [calls EXCEPT ![c].pc = "pf_ret"]
    /\ UNCHANGED <<cache, servers, overlaps, pfPending, pfSharing>>
    /\ TouchedAs("pfShared")

\* connectToNotebookServer after `await this.portForwardServer(port)`:
\* this.serverCache.set(result, callback, options)
ConnectSet(c) ==
    /\ calls[c].pc = "pf_ret"
    /\ LET st == ServerCacheSet(calls[c].result, calls[c].port, calls[c].disp, calls[c].opts,
                                HostState)
       IN /\ servers' = st.sv
          /\ cache' = st.ca
          /\ shares' = st.sh
          /\ fowardedPorts' = st.fp
    /\ calls' = [calls EXCEPT ![c] = DoneAfter(calls[c], calls[c].result)]
    /\ UNCHANGED <<sharedServers, overlaps, pfPending, pfSharing>>
    /\ Touched

\* the caller receives the result of connectToNotebookServer
ConnectReturn(c) ==
    /\ calls[c].pc = "done"
    /\ calls' = [calls EXCEPT ![c] = IdleCall]
    /\ overlaps' = {pr \in overlaps : c \notin pr}
    /\ UNCHANGED <<hostVars, pfPending, pfSharing>>
    /\ Touched

\* portForwardServer started by onAttach, after `await this.api`; at most cap
\* shareServer calls are followed in one run
AttachPfApiUpTo(p, role, cap) ==
    /\ pfPending[p] > 0
    /\ pfPending' = [pfPending EXCEPT ![p] = @ - 1]
    /\ IF ShouldShare(role)
       THEN /\ Len(shares) < cap
            /\ shares' = Append(shares, [port |-> p, count |-> 0, pushed |-> FALSE])
            /\ pfSharing' = pfSharing \cup {Len(shares) + 1}
            /\ UNCHANGED fowardedPorts
       ELSE /\ fowardedPorts' = PushPort(fowardedPorts, p)
            /\ UNCHANGED <<shares, pfSharing>>
    /\ UNCHANGED <<sharedServers, cache, servers, calls, overlaps>>
    /\ TouchedAs(PfOp(role))

AttachPfApi(p, role) == AttachPfApiUpTo(p, role, MaxShares)

\* portForwardServer started by onAttach, after `await api.shareServer(...)`
AttachPfShare(d) ==
    /\ d \in pfSharing
    /\ pfSharing' = pfSharing \ {d}
    /\ sharedServers' = Append(sharedServers, d)
    /\ shares' = [shares EXCEPT ![d].pushed = TRUE]
    /\ fowardedPorts' = PushPort(fowardedPorts, shares[d].port)
    /\ UNCHANGED <<cache, servers, calls, overlaps, pfPending>>
    /\ TouchedAs("pfShared")

\* a holder of a cached server handle calls its dispose
HandleDispose(h) ==
    /\ h \in 1..Len(servers)
    /\ servers[h].wrapped # "none"
    /\ LET st == WrappedDispose(h, HostState)
       IN /\ servers' = st.sv
          /\ cache' = st.ca
          /\ shares' = st.sh
          /\ fowardedPorts' = st.fp
    /\ UNCHANGED <<sharedServers, calls, overlaps, pfPending, pfSharing>>
    /\ Touched

\* onAttach(api): a null api returns at once; otherwise, once waitForService has
\* resolved (to the service or to nothing), register the handlers and start
\* portForwardServer for every forwarded port
OnAttachBody(api, service) ==
    /\ \A p \in PortsToForward(fowardedPorts) : AttachRuns(api) => pfPending[p] < MaxPending
    /\ IF ~AttachRuns(api)
       THEN /\ lastOp' = "onAttachNull"
            /\ attachService' = FALSE
            /\ attachHandlers' = {}
            /\ attachSpawned' = {}
            /\ UNCHANGED pfPending
       ELSE /\ lastOp' = "onAttach"
            /\ attachService' = service
            /\ attachHandlers' = IF service THEN RegisteredCommands ELSE {}
            /\ attachSpawned' = PortsToForward(fowardedPorts)
            /\ pfPending' = [p \in Ports |-> IF p \in PortsToForward(fowardedPorts)
                                             THEN pfPending[p] + 1 ELSE pfPending[p]]
    /\ attachApi' = api
    /\ detachStreak' = 0
    /\ detachedEntries' = {}
    /\ reply' = NoReply
    /\ UNCHANGED <<hostVars, calls, overlaps, pfSharing, detachedPorts, mockVars, apiVars, lintVars>>

\* onAttach(api) called by anyone but the modelled factory
OnAttach(api, service) == OnAttachBody(api, service) /\ UNCHANGED factoryVars

\* the body of onDetach: dispose the shared servers, clear both lists, dispose
\* the server cache
DetachEffects(op) ==
    /\ LET sh1 == DisposeShared(sharedServers, shares)
           st == ServerCacheDispose([fp |-> DetachPorts(fowardedPorts), sh |-> sh1,
                                     sv |-> servers, ca |-> cache])
       IN /\ sharedServers' = DetachShared(sharedServers)
          /\ fowardedPorts' = st.fp
          /\ shares' = st.sh
          /\ servers' = st.sv
          /\ cache' = st.ca
    /\ detachedPorts' = Range(fowardedPorts)
    /\ detachedEntries' = {cache[k] : k \in Keys} \ {0}
    /\ lastOp' = op
    /\ detachStreak' = Min(detachStreak + 1, MaxStreak)
    /\ attachSpawned' = {}
    /\ attachApi' = "Null"
    /\ attachService' = FALSE
    /\ attachHandlers' = {}
    /\ reply' = NoReply
    /\ UNCHANGED <<overlaps, pfPending, pfSharing, mockVars, apiVars, lintVars>>

\* onDetach touches no connectToNotebookServer call in flight
DetachBody(op) == DetachEffects(op) /\ UNCHANGED calls

\* onDetach(api), after `await super.onDetach(api)`
OnDetach == DetachBody("onDetach") /\ UNCHANGED factoryVars

\* dispose(): `await super.dispose()`, `await this.api`, then onDetach(api)
HostDispose == DetachBody("dispose") /\ UNCHANGED factoryVars

Next ==
    \/ \E c \in Calls, o \in Options : ConnectCall(c, o)
    \/ \E c \in Calls : ConnectLaunch(c)
    \/ \E c \in Calls, role \in Roles : ConnectPfApi(c, role)
    \/ \E c \in Calls : ConnectPfShare(c)
    \/ \E c \in Calls : ConnectSet(c)
    \/ \E c \in Calls : ConnectReturn(c)
    \/ \E p \in Ports, role \in Roles : AttachPfApi(p, role)
    \/ \E d \in 1..MaxShares : AttachPfShare(d)
    \/ \E h \in 1..MaxServers : HandleDispose(h)
    \/ \E api \in Roles, service \in BOOLEAN : OnAttach(api, service)
    \/ OnDetach
    \/ HostDispose

Spec == Init /\ [][Next]_vars

(* ------- a host that connects outside a session and is attached ------- *)
\* one connectToNotebookServer call at a time, made while the host is not in a
\* session, and onAttach calls with a live Host API; no onDetach; one more
\* shareServer call is followed than under Spec
AttachNext ==
    \/ \E o \in Options : ConnectCall(1, o)
    \/ ConnectLaunch(1)
    \/ \E role \in Roles \ {"Host"} : ConnectPfApi(1, role)
    \/ ConnectSet(1)
    \/ ConnectReturn(1)
    \/ \E service \in BOOLEAN : OnAttach("Host", service)
    \/ \E p \in Ports : AttachPfApiUpTo(p, "Host", MaxShares + 1)
    \/ \E d \in 1..(MaxShares + 1) : AttachPfShare(d)

AttachSpec == Init /\ [][AttachNext]_vars

(* ------------- onDetach with a port-forward dispose that throws -------- *)
\* onDetach in which dispose() of the i-th shared server throws: forEach stops
\* there, the exception leaves onDetach, and the statements after the forEach
\* (both list resets and serverCache.dispose) are not reached
OnDetachThrows(i) ==
    /\ i \in 1..Len(sharedServers)
    /\ shares' = DisposeShared(SubSeq(sharedServers, 1, i), shares)
    /\ UNCHANGED <<sharedServers, fowardedPorts, cache, servers, calls, overlaps,
                   pfPending, pfSharing>>
    /\ TouchedAs("onDetachThrew")

\* one connectToNotebookServer call at a time, with onDetach calls whose
\* disposals succeed or throw
TeardownNext ==
    \/ \E o \in Options : ConnectCall(1, o)
    \/ ConnectLaunch(1)
    \/ \E role \in Roles : ConnectPfApi(1, role)
    \/ ConnectPfShare(1)
    \/ ConnectSet(1)
    \/ ConnectReturn(1)
    \/ OnDetach
    \/ \E i \in 1..MaxShares : OnDetachThrows(i)

TeardownSpec == Init /\ [][TeardownNext]_vars

(* ------------- onDetach while a connect call is suspended -------------- *)
\* onDetach(api), with the calls that are suspended when its body runs marked
OnDetachInflight ==
    /\ DetachEffects("onDetach")
    /\ calls' = [c \in Calls |-> IF calls[c].pc \in InFlight
                                 THEN [calls[c] EXCEPT !.detached = TRUE] ELSE calls[c]]
    /\ UNCHANGED factoryVars

\* one connectToNotebookServer call at a time and onDetach calls
InflightNext ==
    \/ \E o \in Options : ConnectCall(1, o)
    \/ ConnectLaunch(1)
    \/ \E role \in Roles : ConnectPfApi(1, role)
    \/ ConnectPfShare(1)
    \/ ConnectSet(1)
    \/ ConnectReturn(1)
    \/ OnDetachInflight

InflightSpec == Init /\ [][InflightNext]_vars

(* -------------------------- RoleBasedFactory -------------------------- *)
FRoles == {"None", "Host", "Guest"}

\* the API handed to the wrapper of a role: a session of that role
ApiOf(role) == IF role = "Host" THEN "Host" ELSE "None"

\* a swap that attaches the new wrapper before it detaches the old one
SwapOrderAttachFirst == <<"onAttach", "onDetach">>

\* the two calls of a swap, in order
SwapOrder == <<"onDetach", "onAttach">>

\* the session-change event fires with a session of role r
SessionChange(r) ==
    /\ Len(fevents) < MaxEvents
    /\ r # (IF fevents = <<>> THEN frole ELSE fevents[Len(fevents)])
    /\ fevents' = Append(fevents, r)
    /\ UNCHANGED <<frole, fpc, active>>
    /\ UNCHANGED <<hostVars, calls, overlaps, pfPending, pfSharing, lastOp, detachStreak,
                   attachSpawned, attachApi, attachService, attachHandlers,
                   detachedEntries, detachedPorts, reply, mockVars, apiVars, lintVars>>

\* one lifecycle call of the factory on the wrapper of role r; the wrapper of
\* the Host role is the HostJupyterExecution
LifecycleCall(op, r) ==
    /\ active' = IF op = "onAttach" THEN active \cup {r} ELSE active \ {r}
    /\ IF r = "Host"
       THEN IF op = "onAttach"
            THEN \E service \in BOOLEAN : OnAttachBody(ApiOf(r), service)
            ELSE DetachBody("onDetach")
       ELSE UNCHANGED <<hostVars, calls, overlaps, pfPending, pfSharing, lastOp,
                        detachStreak, attachSpawned, attachApi, attachService,
                        attachHandlers, detachedEntries, detachedPorts, reply, mockVars, apiVars, lintVars>>

\* the factory handles the oldest event: the first call of the swap
FactorySwapFirst ==
    /\ fpc = "idle"
    /\ fevents # <<>>
    /\ LifecycleCall(SwapOrder[1], IF SwapOrder[1] = "onDetach" THEN frole ELSE Head(fevents))
    /\ fpc' = "swapping"
    /\ UNCHANGED <<frole, fevents>>

\* the second call of the swap; the new role is now the resolved one
FactorySwapSecond ==
    /\ fpc = "swapping"
    /\ LifecycleCall(SwapOrder[2], IF SwapOrder[2] = "onDetach" THEN frole ELSE Head(fevents))
    /\ fpc' = "idle"
    /\ frole' = Head(fevents)
    /\ fevents' = Tail(fevents)

\* the host connects to one local server while its role is swapped around
FactoryNext ==
    \/ \E r \in FRoles : SessionChange(r)
    \/ FactorySwapFirst
    \/ FactorySwapSecond
    \/ ConnectCall(1, "undef")
    \/ ConnectLaunch(1)
    \/ \E role \in {"None", "Host"} : ConnectPfApi(1, role)
    \/ ConnectPfShare(1)
    \/ ConnectSet(1)
    \/ ConnectReturn(1)
    \/ \E p \in Ports, role \in {"None", "Host"} : AttachPfApi(p, role)
    \/ \E d \in 1..MaxShares : AttachPfShare(d)

FactorySpec == Init /\ [][FactoryNext]_vars

(* ------------- remote 'connect to notebook server' requests ----------- *)
\* onRemoteConnectToNotebookServer after `await this.connectToNotebookServer(...)`:
\* the call that has returned was made by the request handler, which answers
\* the guest with the connection info, or with undefined
RemoteConnectReturn(c) ==
    /\ calls[c].pc = "done"
    /\ IF calls[c].result = 0
       THEN reply' = NoReply
       ELSE \E info \in ConnectionInfos(calls[c].result) :
               reply' = IF info.kind = "none" THEN NoReply ELSE RemoteConnection(info)
    /\ calls' = [calls EXCEPT ![c] = IdleCall]
    /\ overlaps' = {pr \in overlaps : c \notin pr}
    /\ UNCHANGED <<hostVars, pfPending, pfSharing>>
    /\ GhostReset("remoteReply")

\* the guest invokes the dispose of the connection info it received: noop does
\* nothing; a connection's own dispose would take the server down
ReplyDispose ==
    /\ reply.kind = "info"
    /\ ~reply.called
    /\ reply' = [reply EXCEPT !.called = TRUE]
    /\ LET st == IF reply.dispose = "noop" THEN HostState
                 ELSE WrappedDispose(reply.token, HostState)
       IN /\ servers' = st.sv
          /\ cache' = st.ca
          /\ shares' = st.sh
          /\ fowardedPorts' = st.fp
    /\ UNCHANGED <<sharedServers, calls, overlaps, pfPending, pfSharing>>
    /\ GhostReset("replyDispose")

RemoteNext ==
    \/ Next
    \/ \E c \in Calls : RemoteConnectReturn(c)
    \/ ReplyDispose

RemoteSpec == Init /\ [][RemoteNext]_vars

(* ---------------- MockLiveShare: the shared-service map --------------- *)
hostAll == <<hostVars, calls, overlaps, pfPending, pfSharing, lastOp, detachStreak,
             attachSpawned, attachApi, attachService, attachHandlers, detachedEntries,
             detachedPorts, reply, factoryVars>>

\* the share / get calls of the current epoch of a name, counted
EpochCalled(e, ch) ==
    [first |-> IF e.first = 0 THEN ch ELSE e.first,
     calls |-> IF e.first = 0 /\ ch = 0 THEN 0 ELSE Min(e.calls + 1, MaxEpochCalls)]

\* shareService(name) called on instance inst
ShareService(inst, name) ==
    /\ ~ServicesHas(services, name) => Len(channels) < MaxChannels
    /\ IF ~ServicesHas(services, name)
       THEN /\ channels' = Append(channels, NewMockLiveService)
            /\ latestReq' = Append(latestReq, [n \in MsgNames |-> 0])
            /\ latestNtf' = Append(latestNtf, [n \in MsgNames |-> 0])
            /\ services' = [services EXCEPT ![name] = Len(channels) + 1]
       ELSE UNCHANGED <<channels, latestReq, latestNtf, services>>
    /\ mcall' = [NoCall EXCEPT !.op = "shareService", !.inst = inst, !.svc = name,
                               !.retCh = ServicesGet(services', name)]
    /\ epoch' = [epoch EXCEPT ![name] = EpochCalled(@, ServicesGet(services', name))]
    /\ UNCHANGED <<hostAll, apiVars, lintVars>>

\* unshareService(name) called on instance inst
UnshareService(inst, name) ==
    /\ services' = ServicesDelete(services, name)
    /\ mcall' = [NoCall EXCEPT !.op = "unshareService", !.inst = inst, !.svc = name]
    /\ epoch' = [epoch EXCEPT ![name] = [first |-> 0, calls |-> 0]]
    /\ UNCHANGED <<channels, latestReq, latestNtf, hostAll, apiVars, lintVars>>

\* getSharedService(name) called on instance inst
GetSharedService(inst, name) ==
    /\ mcall' = [NoCall EXCEPT !.op = "getSharedService", !.inst = inst, !.svc = name,
                               !.retCh = ServicesGet(services, name)]
    /\ epoch' = [epoch EXCEPT ![name] =
                    IF @.first = 0 THEN @ ELSE EpochCalled(@, ServicesGet(services, name))]
    /\ UNCHANGED <<services, channels, latestReq, latestNtf, hostAll, apiVars, lintVars>>

(* --------------------------- MockLiveService -------------------------- *)
\* the references a caller can hold: every channel created so far, and
\* undefined (0) right after getSharedService returned it
Refs ==
    (1..Len(channels)) \cup
    (IF mcall.op = "getSharedService" /\ mcall.retCh = 0 THEN {0} ELSE {})

\* a method call on undefined: a TypeError at the caller, nothing else happens
CallOnUndefined(op, name, args, token) ==
    /\ mcall' = [NoCall EXCEPT !.op = op, !.name = name, !.args = args, !.token = token,
                               !.threw = TRUE]
    /\ UNCHANGED <<services, channels, latestReq, latestNtf, epoch, hostAll, apiVars, lintVars>>

\* request(name, args, cancellation) on the channel behind ref
Request(ref, name, args, token) ==
    IF ref = 0 THEN CallOnUndefined("request", name, args, token)
    ELSE LET handler == RequestHandler(channels[ref], name)
             passed == RequestPassed(args, token)
         IN /\ mcall' = [NoCall EXCEPT
                            !.op = "request", !.ref = ref, !.name = name,
                            !.args = args, !.token = token,
                            !.ran = IF handler # 0
                                    THEN <<[kind |-> "request", h |-> handler,
                                            args |-> passed.args, token |-> passed.token]>>
                                    ELSE <<>>,
                            !.result = IF handler # 0
                                       THEN HandlerResult(handler, passed.args, passed.token)
                                       ELSE NoResult]
            /\ UNCHANGED <<services, channels, latestReq, latestNtf, epoch, hostAll, apiVars, lintVars>>

\* onRequest(name, handler) on the channel behind ref
OnRequest(ref, name, h) ==
    /\ ref # 0
    /\ channels' = [channels EXCEPT ![ref] = SetRequestHandler(@, name, h)]
    /\ latestReq' = [latestReq EXCEPT ![ref][name] = h]
    /\ mcall' = [NoCall EXCEPT !.op = "onRequest", !.ref = ref, !.name = name]
    /\ UNCHANGED <<services, latestNtf, epoch, hostAll, apiVars, lintVars>>

\* onNotify(name, handler) on the channel behind ref
OnNotify(ref, name, h) ==
    /\ ref # 0
    /\ channels' = [channels EXCEPT ![ref] = SetNotifyHandler(@, name, h)]
    /\ latestNtf' = [latestNtf EXCEPT ![ref][name] = h]
    /\ mcall' = [NoCall EXCEPT !.op = "onNotify", !.ref = ref, !.name = name]
    /\ UNCHANGED <<services, latestReq, epoch, hostAll, apiVars, lintVars>>

\* notify(name, args) on the channel behind ref
Notify(ref, name, args) ==
    IF ref = 0 THEN CallOnUndefined("notify", name, args, "none")
    ELSE LET handler == NotifyHandler(channels[ref], name)
             passed == NotifyPassed(args)
         IN /\ mcall' = [NoCall EXCEPT
                            !.op = "notify", !.ref = ref, !.name = name, !.args = args,
                            !.ran = IF handler # 0
                                    THEN <<[kind |-> "notify", h |-> handler,
                                            args |-> passed.args, token |-> passed.token]>>
                                    ELSE <<>>]
            /\ UNCHANGED <<services, channels, latestReq, latestNtf, epoch, hostAll, apiVars, lintVars>>

\* one channel on its own, as constructed by new MockLiveService(name)
ChannelInit ==
    /\ HostInit
    /\ ApiInit
    /\ LintInit
    /\ services = [n \in SvcNames |-> 0]
    /\ channels = <<NewMockLiveService>>
    /\ latestReq = <<[n \in MsgNames |-> 0]>>
    /\ latestNtf = <<[n \in MsgNames |-> 0]>>
    /\ epoch = [n \in SvcNames |-> [first |-> 0, calls |-> 0]]
    /\ mcall = NoCall

ChannelNext ==
    \/ \E ref \in Refs, name \in MsgNames, args \in Args, token \in Tokens :
          Request(ref, name, args, token)
    \/ \E ref \in Refs, name \in MsgNames, h \in Handlers : OnRequest(ref, name, h)
    \/ \E ref \in Refs, name \in MsgNames, h \in Handlers : OnNotify(ref, name, h)
    \/ \E ref \in Refs, name \in MsgNames, args \in Args : Notify(ref, name, args)

ChannelSpec == ChannelInit /\ [][ChannelNext]_vars

\* the shared-service map with the channels it hands out; the channels are
\* driven with one message name, one handler and one argument value
MockNext ==
    \/ \E ref \in Refs : Request(ref, "m", "a1", "t1")
    \/ \E ref \in Refs : OnRequest(ref, "m", 1)
    \/ \E ref \in Refs : OnNotify(ref, "m", 1)
    \/ \E ref \in Refs : Notify(ref, "m", "a1")
    \/ \E inst \in Insts, name \in SvcNames : ShareService(inst, name)
    \/ \E inst \in Insts, name \in SvcNames : UnshareService(inst, name)
    \/ \E inst \in Insts, name \in SvcNames : GetSharedService(inst, name)

MockSpec == Init /\ [][MockNext]_vars

(* ---------------------- calls on MockLiveShareApi ---------------------- *)
\* forceRole(role) on the API of container c
ForceRole(c, role) ==
    /\ role # apis[c].currentRole => Len(others) < MaxInstances
    /\ IF role # apis[c].currentRole
       THEN LET made == NewMockLiveShare(others, role)
            IN /\ others' = made.others
               /\ apis' = [apis EXCEPT ![c] = [currentRole |-> role,
                                               currentApi |-> Len(others) + 1,
                                               forced |-> role]]
               /\ acall' = [NoApiCall EXCEPT !.op = "forceRole", !.container = c,
                                             !.role = role, !.created = Len(others) + 1,
                                             !.peerEvents = made.events]
       ELSE /\ apis' = [apis EXCEPT ![c].forced = role]
            /\ acall' = [NoApiCall EXCEPT !.op = "forceRole", !.container = c, !.role = role]
            /\ UNCHANGED others
    /\ UNCHANGED <<hostAll, mockVars, lintVars>>

\* startSession() on the API of container c: currentApi.start() fires the
\* session-change event, or the call throws
StartSession(c) ==
    /\ acall' = [NoApiCall EXCEPT
                    !.op = "startSession", !.container = c, !.role = apis[c].currentRole,
                    !.out = IF StartAllowed(apis[c].currentRole, apis[c].currentApi)
                            THEN Returned(NoUri)
                            ELSE Threw([error |-> "Cannot start session unless host.",
                                        param |-> "none"]),
                    !.sessionEvents = IF StartAllowed(apis[c].currentRole, apis[c].currentApi)
                                      THEN <<[session |-> apis[c].currentApi]>>
                                      ELSE <<>>,
                    !.after = IF acall.op = "startSession" /\ acall.out.err = NoError
                              THEN acall.container ELSE "none"]
    /\ UNCHANGED <<others, apis, hostAll, mockVars, lintVars>>

(* ------------------- calls on MockLiveShare instances ------------------ *)
\* convertLocalUriToShared(v) called on instance i
ConvertLocalCall(i, v) ==
    /\ i \in 1..Len(others)
    /\ acall' = [NoApiCall EXCEPT !.op = "convertLocalUriToShared", !.inst = i,
                                  !.role = others[i].role, !.arg = v,
                                  !.out = ConvertLocalUriToShared(others[i].role, v)]
    /\ UNCHANGED <<others, apis, hostAll, mockVars, lintVars>>

\* convertSharedUriToLocal(v) called on instance i
ConvertSharedCall(i, v) ==
    /\ i \in 1..Len(others)
    /\ acall' = [NoApiCall EXCEPT !.op = "convertSharedUriToLocal", !.inst = i,
                                  !.role = others[i].role, !.arg = v,
                                  !.out = ConvertSharedUriToLocal(others[i].role, v)]
    /\ UNCHANGED <<others, apis, hostAll, mockVars, lintVars>>

\* two test containers, each with its MockLiveShareApi
ApiNext ==
    \/ \E c \in Containers, role \in ApiRoles : ForceRole(c, role)
    \/ \E c \in Containers : StartSession(c)

ApiSpec == Init /\ [][ApiNext]_vars

\* the instances one container creates, with the Uri conversions called on them
UriNext ==
    \/ \E role \in ApiRoles : ForceRole("hostContainer", role)
    \/ \E i \in 1..MaxInstances, v \in Values : ConvertLocalCall(i, v)
    \/ \E i \in 1..MaxInstances, v \in Values : ConvertSharedCall(i, v)

UriSpec == Init /\ [][UriNext]_vars

(* --------------------------- calls on BaseLinter ----------------------- *)
\* parseLines(outputLines, regEx) with maxNumberOfProblems = max
ParseLinesCall(lines, colOffset, max) ==
    /\ lint' = [op |-> "parseLines", lines |-> lines, colOffset |-> colOffset, max |-> max,
                out |-> ParseLines(lines, colOffset, max)]
    /\ UNCHANGED <<hostAll, mockVars, apiVars>>

LintNext ==
    \E lines \in SeqsUpTo(OutputLines, MaxLines), colOffset \in ColumnOffsets,
       max \in 0..MaxProblems : ParseLinesCall(lines, colOffset, max)

LintSpec == Init /\ [][LintNext]_vars

\* run(...) of a linter with column offset 0 and maxNumberOfProblems = 1
RunCall(i) ==
    /\ lint' = [op |-> "run", in |-> i, out |-> Run(i, 0, 1)]
    /\ UNCHANGED <<hostAll, mockVars, apiVars>>

RunNext == \E i \in RunInputs : RunCall(i)

RunSpec == Init /\ [][RunNext]_vars

(* ------------------------------- claims ------------------------------- *)
Detached == {"onDetach", "dispose"}
Servers == 1..Len(servers)
Shares == 1..Len(shares)

C2_NoDuplicateLaunch ==
    \A c1, c2 \in Calls :
        (c1 # c2 /\ {c1, c2} \in overlaps) =>
            /\ ~(calls[c1].launched /\ calls[c2].launched)
            /\ (/\ calls[c1].pc = "done" /\ calls[c1].result # 0
                /\ calls[c2].pc = "done" /\ calls[c2].result # 0)
                   => calls[c1].result = calls[c2].result

\* C3: a handle stored by set under options O2 and not disposed since is what
\* getServer / ServerCache.get returns for every O1 with the same canonical key.
C3_GetAfterSet ==
    \A h \in Servers :
        servers[h].wrapped = "armed" =>
            \A o1 \in Options :
                GenerateKey(o1) = GenerateKey(servers[h].setOpts) => GetServer(o1) = h

\* a handle stored under the explicit default options is found with absent options
C3_Witness ==
    \E h \in Servers :
        /\ servers[h].wrapped = "armed"
        /\ servers[h].setOpts = "dflt"
        /\ GetServer("undef") = h

\* C4: after ServerCache.dispose (run by onDetach) the callback of every entry
\* that was live has run exactly once and get finds nothing for any options.
C4_CacheDispose ==
    lastOp \in Detached =>
        /\ \A h \in detachedEntries : servers[h].wrapped = "fired" /\ servers[h].cbCount = 1
        /\ \A o \in Options : ServerCacheGet(cache, o) = 0

\* the cache was disposed while it held an entry under each key
C4_Witness ==
    /\ lastOp \in Detached
    /\ Cardinality(detachedEntries) = 2

\* C5: the disposal callback of a handle runs exactly once in total: never
\* before the handle or the cache is disposed, once after, whichever of handle
\* dispose and cache dispose comes first and however often they are repeated.
C5_CallbackOnce ==
    \A h \in Servers :
        /\ servers[h].cbCount <= 1
        /\ servers[h].wrapped = "fired" <=> servers[h].cbCount = 1

\* the cache is disposed after a handle it had stored was disposed on its own
C5_Witness ==
    /\ lastOp \in Detached
    /\ \E h \in Servers : servers[h].wrapped = "fired" /\ h \notin detachedEntries
    /\ \E h \in detachedEntries : servers[h].cbCount = 1

\* C6 as stated: when the disposal callback of a cached server with a forwarded
\* port runs, no port forward for that port stays active and the port is not in
\* the forwarded-port list.
C6_CallbackTearsDown ==
    [][\A h \in Servers :
          (servers[h].wrapped = "armed" /\ servers'[h].wrapped = "fired"
             /\ servers[h].cbPort # NoPort) =>
              /\ servers[h].cbPort \notin Range(fowardedPorts')
              /\ \A d \in 1..Len(shares') :
                    (shares'[d].pushed /\ shares'[d].port = servers[h].cbPort)
                        => shares'[d].count > 0]_vars

\* C7: when the body of onDetach has run (called directly or by dispose), every
\* disposable that was in the shared-server list is disposed, both lists are
\* empty and getServer finds nothing for any options.
C7_DetachPost ==
    lastOp \in Detached =>
        /\ sharedServers = <<>>
        /\ fowardedPorts = <<>>
        /\ \A d \in Shares : shares[d].pushed => shares[d].count >= 1
        /\ \A h \in Servers : servers[h].wrapped # "armed"
        /\ \A o \in Options : GetServer(o) = 0

\* dispose() tore down a host that had a shared port forward and a cached server
C7_Witness ==
    /\ lastOp = "dispose"
    /\ detachedPorts # {}
    /\ detachedEntries # {}
    /\ \E d \in Shares : shares[d].pushed

\* C8: an onDetach that directly follows an onDetach disposes nothing and
\* leaves the host state as the first one left it.
C8_DetachIdempotent ==
    [][(lastOp \in Detached /\ lastOp' \in Detached) => UNCHANGED hostVars]_vars

\* onDetach ran twice in a row after a port forward had been shared
C8_Witness ==
    /\ detachStreak = 2
    /\ \E d \in Shares : shares[d].pushed /\ shares[d].count >= 1

\* C9 as stated: no port-forward disposable is disposed more than once.
C9_DisposedAtMostOnce == \A d \in Shares : shares[d].count <= 1

\* C10: when onAttach has run with a non-null API and the shared service, a
\* handler is registered for each of the six request names and portForwardServer
\* has been started for every port of the forwarded-port list.
C10_AttachPost ==
    (lastOp = "onAttach" /\ attachService) =>
        /\ attachHandlers = Commands
        /\ Cardinality(attachHandlers) = 6
        /\ attachSpawned = Range(fowardedPorts)
        /\ \A p \in Range(fowardedPorts) : pfPending[p] >= 1

\* onAttach ran with the service while a port was in the forwarded-port list
C10_Witness ==
    /\ lastOp = "onAttach"
    /\ attachService
    /\ fowardedPorts # <<>>

\* C11: portForwardServer calls shareServer only when the API it read is non-null,
\* has a session and the session role is Host; otherwise it makes no shareServer
\* call and returns undefined; whenever it returns, the port is in the
\* forwarded-port list.
C11_ShareOnlyWhenHost ==
    [][/\ Len(shares') > Len(shares) => lastOp' = "pfHost"
       /\ \A c \in Calls :
             (calls[c].pc = "pf_api" /\ calls'[c].pc # "pf_api") =>
                 IF lastOp' = "pfHost"
                 THEN calls'[c].pc = "pf_share" /\ Len(shares') = Len(shares) + 1
                 ELSE /\ lastOp' \in {"pfNull", "pfNoSession", "pfNone"}
                      /\ shares' = shares
                      /\ sharedServers' = sharedServers
                      /\ calls'[c].pc = "pf_ret"
                      /\ calls'[c].disp = 0
                      /\ calls[c].port \in Range(fowardedPorts')
       /\ \A c \in Calls :
             (calls[c].pc = "pf_share" /\ calls'[c].pc # "pf_share") =>
                 /\ calls'[c].pc = "pf_ret"
                 /\ calls'[c].disp \in Range(sharedServers')
                 /\ calls[c].port \in Range(fowardedPorts')
       /\ \A p \in Ports :
             pfPending'[p] < pfPending[p] =>
                 IF lastOp' = "pfHost"
                 THEN Len(shares') = Len(shares) + 1
                 ELSE shares' = shares /\ p \in Range(fowardedPorts')
       /\ \A d \in pfSharing \ pfSharing' :
             d \in Range(sharedServers') /\ shares[d].port \in Range(fowardedPorts')]_vars

\* portForwardServer has just returned undefined to a connect call after reading
\* an API that is not a Host session; the port is recorded and nothing is shared
C11_Witness ==
    /\ lastOp \in {"pfNull", "pfNoSession", "pfNone"}
    /\ shares = <<>>
    /\ \E c \in Calls :
          /\ calls[c].pc = "pf_ret"
          /\ calls[c].disp = 0
          /\ calls[c].port \in Range(fowardedPorts)

\* C12: the connection info the host returns for a remote 'connect to notebook
\* server' request carries the baseUrl and token of the server the local connect
\* returned, with localLaunch false and a no-op dispose; when the guest invokes
\* that dispose nothing changes on the host, and getServer still returns the
\* same handle for every options value.
C12_RemoteConnection ==
    [][/\ reply'.kind = "info" => reply'.localLaunch = FALSE /\ reply'.dispose = "noop"
       /\ \A c \in Calls :
             (lastOp' = "remoteReply" /\ calls[c].pc = "done" /\ calls'[c].pc = "idle"
                /\ reply'.kind = "info") =>
                 /\ reply'.baseUrl = calls[c].result
                 /\ reply'.token = calls[c].result
       /\ lastOp' = "replyDispose" =>
             /\ UNCHANGED hostVars
             /\ \A o \in Options : GetServer(o)' = GetServer(o)]_vars

\* the guest has invoked the dispose of connection info it got for a locally
\* launched server with a forwarded port, and the cache still holds that server
C12_Witness ==
    /\ lastOp = "replyDispose"
    /\ reply.kind = "info"
    /\ reply.called
    /\ reply.token \in Servers
    /\ servers[reply.token].wrapped = "armed"
    /\ servers[reply.token].cbPort # NoPort
    /\ GetServer(servers[reply.token].setOpts) = reply.token

\* C13: from the first shareService(X) after an unshareService(X) (or after the
\* start) until the next unshareService(X), every shareService(X) and
\* getSharedService(X), on whichever instance, returns the channel that first
\* shareService(X) returned.
C13_SameChannel ==
    (mcall.op \in {"shareService", "getSharedService"} /\ epoch[mcall.svc].first # 0) =>
        mcall.retCh = epoch[mcall.svc].first

\* the guest instance shares a name that was already shared since the last unshare
C13_Witness ==
    /\ mcall.op = "shareService"
    /\ mcall.inst = "guest"
    /\ epoch[mcall.svc].calls >= 2
    /\ mcall.retCh # 0

\* C14 as stated: a request or notify made through a reference to a channel that
\* unshareService has removed runs no handler and raises nothing at the caller.
C14_RemovedChannelInert ==
    (/\ mcall.op \in {"request", "notify"}
     /\ mcall.ref # 0
     /\ mcall.ref \notin {services[n] : n \in SvcNames}) =>
        mcall.ran = <<>> /\ ~mcall.threw

\* C15: request(name, args, token) on a channel where no handler was registered
\* under name raises nothing, runs no handler, yields undefined and changes no
\* channel.
C15_UnregisteredRequest ==
    [][(/\ mcall'.op = "request"
        /\ mcall'.ref # 0
        /\ latestReq[mcall'.ref][mcall'.name] = 0) =>
           /\ ~mcall'.threw
           /\ mcall'.ran = <<>>
           /\ mcall'.result = NoResult
           /\ UNCHANGED <<channels, services>>]_vars

\* a request under a name without request handler, on a channel that has a
\* request handler under the other name and a notify handler under this name
C15_Witness ==
    /\ mcall.op = "request"
    /\ mcall.ref # 0
    /\ mcall.ran = <<>>
    /\ latestReq[mcall.ref][mcall.name] = 0
    /\ latestNtf[mcall.ref][mcall.name] # 0
    /\ \E n \in MsgNames : latestReq[mcall.ref][n] # 0

\* C16: request(name, args, token) on a channel with a handler registered under
\* name runs exactly one handler, the one of the latest onRequest(name, ...),
\* passes it args and token as given and returns what it returns.
C16_LastWriteWins ==
    (/\ mcall.op = "request"
     /\ mcall.ref # 0
     /\ latestReq[mcall.ref][mcall.name] # 0) =>
        /\ mcall.ran = <<[kind |-> "request", h |-> latestReq[mcall.ref][mcall.name],
                           args |-> mcall.args, token |-> mcall.token]>>
        /\ mcall.result = HandlerResult(latestReq[mcall.ref][mcall.name], mcall.args, mcall.token)

\* a request with a token ran handler 2 while the other name and the notify map
\* hold handler 1
C16_Witness ==
    /\ mcall.op = "request"
    /\ mcall.ref # 0
    /\ mcall.token = "t1"
    /\ Len(mcall.ran) = 1
    /\ mcall.ran[1].h = 2
    /\ latestNtf[mcall.ref][mcall.name] = 1
    /\ \E n \in MsgNames \ {mcall.name} : latestReq[mcall.ref][n] = 1

\* C17: notify(name, args) on a channel where no notify handler was registered
\* under name runs no handler (not a request handler of that name either),
\* raises nothing and leaves both handler maps as they were.
C17_UnregisteredNotify ==
    [][(/\ mcall'.op = "notify"
        /\ mcall'.ref # 0
        /\ latestNtf[mcall'.ref][mcall'.name] = 0) =>
           /\ ~mcall'.threw
           /\ mcall'.ran = <<>>
           /\ UNCHANGED channels]_vars

\* a notify under a name that has a request handler but no notify handler
C17_Witness ==
    /\ mcall.op = "notify"
    /\ mcall.ref # 0
    /\ mcall.ran = <<>>
    /\ latestNtf[mcall.ref][mcall.name] = 0
    /\ latestReq[mcall.ref][mcall.name] # 0

\* C19: onAttach with a null API registers no request handler, starts no port
\* forward (so makes no shareServer call) and leaves the shared-server list, the
\* forwarded-port list and the server cache as they were.
C19_AttachNullNoOp ==
    [][(lastOp' \in {"onAttach", "onAttachNull"} /\ attachApi' = "Null") =>
           /\ attachHandlers' = {}
           /\ attachSpawned' = {}
           /\ UNCHANGED <<hostVars, pfPending, pfSharing>>]_vars

\* onAttach(null) has run on a host that has a forwarded port and a cached server
C19_Witness ==
    /\ lastOp = "onAttachNull"
    /\ attachApi = "Null"
    /\ fowardedPorts # <<>>
    /\ \E o \in Options : GetServer(o) # 0

\* C20 as stated: with onAttach called more than once with a live Host API and
\* no onDetach in between, no port is shared a second time: the shared-server
\* list holds at most one port forward per port, as after one onAttach.
C20_AttachIdempotent ==
    \A i, j \in 1..Len(sharedServers) :
        i # j => shares[sharedServers[i]].port # shares[sharedServers[j]].port

\* C18: on a session-role change the factory calls onDetach on the wrapper of
\* the old role before it calls onAttach on the wrapper of the new role: a
\* wrapper is attached only while none is, the first call of a swap detaches,
\* and at most one wrapper is attached at any time.
C18_DetachBeforeAttach ==
    [][/\ Cardinality(active') <= 1
       /\ (active' \ active) # {} => active = {}
       /\ (fpc = "idle" /\ fpc' = "swapping") => (active = {frole} /\ active' = {})
       /\ (fpc = "swapping" /\ fpc' = "idle") => active' = {frole'}]_vars

\* in a swap from Host to Guest the host wrapper, which had a forwarded port,
\* has been detached and the guest wrapper is not attached yet
C18_Witness ==
    /\ fpc = "swapping"
    /\ frole = "Host"
    /\ fevents # <<>>
    /\ Head(fevents) = "Guest"
    /\ active = {}
    /\ lastOp = "onDetach"
    /\ detachedPorts # {}

\* C21 as stated: an onDetach in which the dispose of a port-forward disposable
\* fails does not propagate the failure, and when it returns the shared-server
\* and forwarded-port lists are empty and the server cache holds no entry.
C21_TeardownCompletes ==
    lastOp \in Detached \cup {"onDetachThrew"} =>
        /\ lastOp # "onDetachThrew"
        /\ sharedServers = <<>>
        /\ fowardedPorts = <<>>
        /\ \A k \in Keys : cache[k] = 0

\* C22: on an instance whose session role is not Host, convertLocalUriToShared
\* and convertSharedUriToLocal throw for every Uri argument and return no Uri;
\* for an argument that is missing or not a Uri they throw the argument error of
\* checkArg naming the parameter, whatever the role.
C22_ConvertErrors ==
    acall.op \in {"convertLocalUriToShared", "convertSharedUriToLocal"} =>
        /\ (acall.arg \in Uris /\ others[acall.inst].role # "Host") =>
              /\ acall.out.err # NoError
              /\ acall.out.uri = NoUri
        /\ acall.arg \notin Uris =>
              /\ acall.out.err.error \in {"is required", "must be a Uri object"}
              /\ acall.out.err.param = (IF acall.op = "convertLocalUriToShared"
                                        THEN "localUri" ELSE "sharedUri")
              /\ acall.out.uri = NoUri

C22_Witness ==
    /\ acall.op = "convertLocalUriToShared"
    /\ others[acall.inst].role = "Guest"
    /\ acall.arg \in Uris
    /\ acall.arg.scheme = "file"
    /\ acall.out.err.error = "Only the host role can convert shared URIs."

\* C23 as stated: with one container forced to the Host role and the other to
\* the Guest role, startSession completes without error for the Host, and a
\* startSession for the Guest that follows it completes without error too.
C23_GuestSessionStarts ==
    (/\ acall.op = "startSession"
     /\ \E h \in Containers \ {acall.container} : apis[h].forced = "Host") =>
        /\ apis[acall.container].forced = "Host" => acall.out.err = NoError
        /\ (/\ apis[acall.container].forced = "Guest"
            /\ acall.after \in Containers
            /\ apis[acall.after].forced = "Host") => acall.out.err = NoError

C25_PeerConnected ==
    [][Len(others') = Len(others) + 1 =>
         LET n == Len(others')
         IN /\ \A i \in 1..Len(others) :
                  IF others[i].role # others'[n].role
                  THEN /\ others'[i] = [others[i] EXCEPT !.peers = Append(@, n)]
                       /\ acall'.peerEvents[i] = <<[added |-> <<n>>, removed |-> <<>>]>>
                  ELSE /\ others'[i] = others[i]
                       /\ acall'.peerEvents[i] = <<>>
            /\ others'[n].peers = <<>>
            /\ acall'.peerEvents[n] = <<>>
            /\ \A i \in 1..n : \A k \in 1..Len(others'[i].peers) :
                  /\ others'[i].peers[k] # i
                  /\ others'[others'[i].peers[k]].role # others'[i].role
                  /\ \A k2 \in 1..Len(others'[i].peers) :
                        others'[i].peers[k2] = others'[i].peers[k] => k2 = k]_vars

C25_Witness ==
    /\ acall.op = "forceRole"
    /\ acall.created = 3
    /\ others[1].role = others[3].role
    /\ others[2].role # others[3].role
    /\ others[2].peers = <<3>>
    /\ others[1].peers = <<2>>

\* C26: a connectToNotebookServer call that finds a handle for its options in
\* the server cache returns that handle at once: no server is launched, no
\* shareServer call is made, and the forwarded-port list, the shared-server list
\* and the cache are left as they were; a call goes on to the backend connect
\* only when the cache holds no handle for its options.
C26_CacheHitFrame ==
    [][\A c \in Calls :
         (calls[c].pc = "idle" /\ calls'[c].pc # "idle") =>
            /\ calls'[c].pc \in {"done", "launch"}
            /\ calls'[c].pc = "launch" => ServerCacheGet(cache, calls'[c].opts) = 0
            /\ calls'[c].pc = "done" =>
                  /\ calls'[c].result # 0
                  /\ \E o \in Options : ServerCacheGet(cache, o) = calls'[c].result
                  /\ ~calls'[c].launched
                  /\ UNCHANGED <<sharedServers, fowardedPorts, cache, servers, shares,
                                 pfPending, pfSharing>>]_vars

\* two calls hold the same handle: one of them launched it, the other took it
\* from the cache
C26_Witness ==
    /\ calls[1].pc = "done"
    /\ calls[2].pc = "done"
    /\ calls[1].result # 0
    /\ calls[1].result = calls[2].result
    /\ \E k \in Keys : cache[k] = calls[1].result

\* C27: on a cache miss, when the backend connect has resolved: a port is
\* forwarded only for a server that reports localLaunch with a port in its base
\* URL; for any other server no port is recorded and nothing is shared, and the
\* server is stored in the cache under the options of the call; when the backend
\* yields no server nothing is stored and the call returns undefined.
C27_ForwardOnlyLocal ==
    [][\A c \in Calls :
         (calls[c].pc = "launch" /\ calls'[c].pc # "launch") =>
            /\ lastOp' \in {"launchNone", "launchRemote", "launchNoPort", "launchLocal"}
            /\ calls'[c].pc = "pf_api" <=> lastOp' = "launchLocal"
            /\ lastOp' = "launchLocal" =>
                  /\ calls'[c].port \in Ports
                  /\ calls'[c].result = Len(servers')
                  /\ Len(servers') = Len(servers) + 1
            /\ lastOp' \in {"launchRemote", "launchNoPort"} =>
                  LET h == Len(servers')
                  IN /\ Len(servers') = Len(servers) + 1
                     /\ calls'[c] = DoneAfter(calls[c], h)
                     /\ cache'[GenerateKey(calls[c].opts)] = h
                     /\ servers'[h].cbPort = NoPort
                     /\ servers'[h].cbDisp = 0
                     /\ Range(fowardedPorts') \subseteq Range(fowardedPorts)
                     /\ Len(shares') = Len(shares)
                     /\ sharedServers' = sharedServers
            /\ lastOp' = "launchNone" =>
                  /\ calls'[c] = DoneAfter(calls[c], 0)
                  /\ UNCHANGED hostVars]_vars

C27_Witness ==
    /\ lastOp = "launchNoPort"
    /\ \E c \in Calls :
          /\ calls[c].pc = "done"
          /\ calls[c].result = Len(servers)
          /\ \E k \in Keys : cache[k] = calls[c].result
    /\ servers[Len(servers)].cbPort = NoPort
    /\ fowardedPorts = <<>>

\* C28 as stated: when the body of onDetach has run while a
\* connectToNotebookServer call was suspended and the call has completed, the
\* server cache holds no entry and the forwarded-port and shared-server lists
\* are empty.
C28_InflightLeavesNothing ==
    \A c \in Calls :
        (calls[c].pc = "done" /\ calls[c].detached) =>
            /\ \A k \in Keys : cache[k] = 0
            /\ fowardedPorts = <<>>
            /\ sharedServers = <<>>

\* C29: the forwarded-port list never holds a port number twice.
C29_NoDuplicatePorts ==
    \A i, j \in 1..Len(fowardedPorts) : fowardedPorts[i] = fowardedPorts[j] => i = j

\* a portForwardServer started by onAttach has shared a port that a connect
\* call had recorded without sharing it, and no connect call is in flight
C29_Witness ==
    /\ lastOp = "pfShared"
    /\ \A c \in Calls : calls[c].pc \notin InFlight
    /\ sharedServers # <<>>
    /\ \E h \in Servers :
          /\ servers[h].wrapped = "armed"
          /\ servers[h].cbDisp = 0
          /\ servers[h].cbPort \in Range(fowardedPorts)
          /\ shares[sharedServers[Len(sharedServers)]].port = servers[h].cbPort

\* C30: getSharedService(name) creates no channel and changes no entry of the
\* service map, and returns no channel when name was not shared since the last
\* unshareService(name) or never; the first shareService(name) after an
\* unshareService(name) returns a channel that did not exist before and has no
\* request or notify handler, and leaves the earlier channels as they were; a
\* request on a channel runs only a handler registered on that very channel.
C30_GetNeverCreates ==
    [][/\ mcall'.op = "getSharedService" =>
            /\ channels' = channels
            /\ services' = services
            /\ mcall'.retCh = services[mcall'.svc]
            /\ epoch[mcall'.svc].first = 0 => mcall'.retCh = 0
       /\ (mcall'.op = "shareService" /\ epoch[mcall'.svc].first = 0) =>
            /\ mcall'.retCh = Len(channels) + 1
            /\ Len(channels') = Len(channels) + 1
            /\ channels'[mcall'.retCh] = NewMockLiveService
            /\ \A n \in MsgNames : /\ RequestHandler(channels'[mcall'.retCh], n) = 0
                                   /\ NotifyHandler(channels'[mcall'.retCh], n) = 0
            /\ \A ref \in 1..Len(channels) : channels'[ref] = channels[ref]
       /\ (mcall'.op = "request" /\ mcall'.ref # 0) =>
            IF latestReq[mcall'.ref][mcall'.name] = 0
            THEN mcall'.ran = <<>> /\ mcall'.result = NoResult
            ELSE /\ Len(mcall'.ran) = 1
                 /\ mcall'.ran[1].h = latestReq[mcall'.ref][mcall'.name]]_vars

\* X was shared, a handler registered on its channel, X unshared and shared
\* again, and a request on the new channel ran nothing
C30_Witness ==
    /\ Len(channels) = 2
    /\ services["X"] = 2
    /\ services["Y"] = 0
    /\ epoch["Y"].first = 0
    /\ latestReq[1]["m"] # 0
    /\ latestReq[2]["m"] = 0
    /\ mcall.op = "request"
    /\ mcall.ref = 2
    /\ mcall.ran = <<>>

\* the messages of the matching lines among the first n lines, in line order
RECURSIVE MatchesOf(_, _, _)
MatchesOf(lines, n, colOffset) ==
    IF n = 0 THEN <<>>
    ELSE IF lines[n].kind = "match"
         THEN Append(MatchesOf(lines, n - 1, colOffset), ParseLine(lines[n], colOffset))
         ELSE MatchesOf(lines, n - 1, colOffset)

\* C31 as stated: for every list of output lines and every maxNumberOfProblems,
\* 0 included, parseLines returns at most maxNumberOfProblems messages, they are
\* the messages of the matching lines it read, in line order, and it reads no
\* line after the one that reached the limit.
C31_AtMostMax ==
    lint.op = "parseLines" =>
        /\ Len(lint.out.messages) <= lint.max
        /\ lint.out.messages = MatchesOf(lint.lines, lint.out.read, lint.colOffset)
        /\ lint.out.read < Len(lint.lines) =>
              /\ Len(lint.out.messages) = lint.max
              /\ lint.lines[lint.out.read].kind = "match"

\* C32: run never lets a failure of the tool execution reach its caller: for a
\* document the linter is disabled for it returns an empty list and executes
\* nothing; when the interpreter lookup, the execution or the parsing fails it
\* calls the error handler once and returns an empty list; otherwise the error
\* handler is not called.
C32_RunNeverThrows ==
    lint.op = "run" =>
        LET failed == \/ lint.in.interp \in {"undefined", "rejects"}
                      \/ lint.in.exec \in {"stdoutUndefined", "rejects"}
        IN /\ ~lint.out.threw
           /\ ~lint.in.enabled =>
                 /\ lint.out.ret = <<>>
                 /\ ~lint.out.executed
                 /\ lint.out.handlerCalls = 0
           /\ (lint.in.enabled /\ failed) =>
                 /\ lint.out.ret = <<>>
                 /\ lint.out.handlerCalls = 1
           /\ (lint.in.enabled /\ ~failed) =>
                 /\ lint.out.handlerCalls = 0
                 /\ lint.out.executed

\* the execution was rejected, and so was the promise of the error handler
C32_Witness ==
    /\ lint.op = "run"
    /\ lint.in.enabled
    /\ lint.in.interp = "VirtualEnv"
    /\ lint.in.exec = "rejects"
    /\ lint.in.handler = "rejects"
    /\ ~lint.in.test
    /\ lint.out.handlerCalls = 1
    /\ lint.out.ret = <<>>

====
